---- MODULE Spec2Model ----
(***************************************************************************)
(* A model of src/main.py: the BotsV1Analyzer class (WinEvent and DNS log  *)
(* analysis, cross-source ranking, summary export) and its driver          *)
(* run_full_analysis.                                                      *)
(*                                                                         *)
(* A pandas DataFrame is a record [none, cols, float, rows]: `none` says   *)
(* the attribute is still None, `cols` is the set of column names, `rows`  *)
(* the sequence of rows.  A Python dict is a sequence of [label, count]    *)
(* (or [source, events]) pairs in insertion order with unique keys.        *)
(***************************************************************************)
EXTENDS Integers, Sequences, FiniteSets, TLC

VARIABLES
    winevent_df,        \* self.winevent_df
    dns_df,             \* self.dns_df
    suspicious_events,  \* self.suspicious_events: <<[source, events]>>
    summary_csv,        \* the file suspicious_events_summary.csv
    pc,                 \* position of the caller (run_full_analysis or a test)
    args,               \* the arguments of the current run: the two files
    stages,             \* the stages the current run has executed, in order
    ret,                \* what the analyze calls of the current run returned
    risk_levels,        \* the tier counts analyze_winevent_logs printed last
    ranked,             \* the top list visualize_results built last
    runs                \* number of runs started so far

vars == <<winevent_df, dns_df, suspicious_events, summary_csv, pc, args,
          stages, ret, risk_levels, ranked, runs>>

(***************************************************************************)
(* Bounds of the model.                                                    *)
(***************************************************************************)
MaxWinBatch == 4        \* records of a WinEvent batch (pure-function spec)
MaxRunBatch == 2        \* records of a batch loaded by a full run
MaxRuns == 2            \* runs of run_full_analysis per behaviour
MaxDnsBatch == 2        \* records of a DNS batch whose schema varies
MaxDomainBatch == 5     \* records of a DNS batch whose domains vary
MaxIpBatch == 10        \* records of a DNS batch whose client IPs vary
NumIps == 6             \* distinct client IPs available to a batch
MaxWinFindings == 5     \* WinEvent findings in a cached set (ranker spec)
MaxWinCount == 2        \* count of a cached WinEvent finding (ranker spec)

(***************************************************************************)
(* Generic sequence helpers.                                               *)
(***************************************************************************)
RECURSIVE SumSeq(_)
SumSeq(s) == IF s = <<>> THEN 0 ELSE Head(s) + SumSeq(Tail(s))

Range(s) == {s[i] : i \in 1..Len(s)}

\* [f(s[1]), ..., f(s[n])]
MapSeq(s, f(_)) == [i \in 1..Len(s) |-> f(s[i])]

\* number of positions of s holding v
CountOf(s, v) == Cardinality({i \in 1..Len(s) : s[i] = v})

\* all sequences over S of length at most n
RECURSIVE SeqsUpTo(_, _)
SeqsUpTo(S, n) ==
    IF n = 0 THEN {<<>>}
    ELSE LET P == SeqsUpTo(S, n - 1)
         IN  P \cup {Append(s, x) : s \in {p \in P : Len(p) = n - 1}, x \in S}

\* all nondecreasing sequences over lo..hi of length at most n
RECURSIVE SortedSeqsUpTo(_, _, _)
SortedSeqsUpTo(lo, hi, n) ==
    IF n = 0 THEN {<<>>}
    ELSE LET P == SortedSeqsUpTo(lo, hi, n - 1)
             Ext == {q \in {p \in P : Len(p) = n - 1} \X (lo..hi) :
                       q[1] = <<>> \/ q[1][Len(q[1])] <= q[2]}
         IN  P \cup {Append(q[1], q[2]) : q \in Ext}

(***************************************************************************)
(* pandas operations used by the analyzer.                                 *)
(***************************************************************************)
\* pd.to_numeric(errors='coerce') turns an unparseable cell into NaN
NaN == -1

\* Series.dropna()
DropNa(col, na) == SelectSeq(col, LAMBDA v : v # na)

\* Series.unique(): the distinct values in order of first appearance
RECURSIVE Unique(_)
Unique(col) ==
    IF col = <<>> THEN <<>>
    ELSE LET r == Unique(SubSeq(col, 1, Len(col) - 1))
             v == col[Len(col)]
         IN  IF v \in Range(r) THEN r ELSE Append(r, v)

\* stable insertion of pair p into a sequence sorted by descending n
RECURSIVE InsertDesc(_, _)
InsertDesc(s, p) ==
    IF s = <<>> THEN <<p>>
    ELSE IF Head(s).n >= p.n THEN <<Head(s)>> \o InsertDesc(Tail(s), p)
    ELSE <<p>> \o s

\* stable sort of [v, n] pairs by descending n
RECURSIVE SortDesc(_)
SortDesc(s) ==
    IF s = <<>> THEN <<>>
    ELSE InsertDesc(SortDesc(SubSeq(s, 1, Len(s) - 1)), s[Len(s)])

\* Series.value_counts(): [v, n] per distinct non-null value, by descending n
ValueCounts(col, na) ==
    LET c == DropNa(col, na)
        u == Unique(c)
    IN  SortDesc([i \in 1..Len(u) |-> [v |-> u[i], n |-> CountOf(c, u[i])]])

(***************************************************************************)
(* Values shared by the analyzer's state.                                  *)
(***************************************************************************)
\* self.winevent_df = None / self.dns_df = None
NoFrame == [none |-> TRUE, cols |-> {}, float |-> FALSE, rows |-> <<>>]

\* a key of a findings dict: "[<id>] <name>" for WinEvent (id printed as a
\* float, "[4625.0] ...", when the EventCode column is float64), and the
\* heuristic's name for DNS
WinLabel(id, float, name) == [id |-> id, float |-> float, name |-> name]
DnsLabel(name) == [id |-> 0, float |-> FALSE, name |-> name]

\* d[key] = value on a dict kept as a sequence of pairs: an existing key
\* keeps its position, a new key goes last
SetKey(d, kf, key, pair) ==
    IF \E i \in 1..Len(d) : d[i][kf] = key
    THEN [i \in 1..Len(d) |-> IF d[i][kf] = key THEN pair ELSE d[i]]
    ELSE Append(d, pair)

HasSource(d, src) == \E i \in 1..Len(d) : d[i].source = src

\* d[src] where present, else the empty dict
EventsOf(d, src) ==
    IF HasSource(d, src)
    THEN d[CHOOSE i \in 1..Len(d) : d[i].source = src].events
    ELSE <<>>

NoReturn == [called |-> FALSE, raised |-> FALSE, value |-> <<>>]
\* nothing called yet in this run; load is "none", "ok" or "failed": what
\* load_winevent_data returned
\* dns_first is what a former call of analyze_dns_logs on the same batch
\* returned, when the caller calls it again
NoReturns == [load |-> "none", win |-> NoReturn, dns |-> NoReturn,
              dns_first |-> NoReturn]
NoRisk == [High |-> 0, Medium |-> 0, Low |-> 0]
NoRanking == [built |-> FALSE, rows |-> <<>>]
NoFile == [exists |-> FALSE, rows |-> <<>>]

(***************************************************************************)
(* EventRiskCatalog: the suspicious_events table of analyze_winevent_logs. *)
(***************************************************************************)
Entry(name, risk) == [name |-> name, risk |-> risk]

EventCatalog ==
    (4624 :> Entry("Successful Logon", "Medium")) @@
    (4625 :> Entry("Failed Logon", "High")) @@
    (4634 :> Entry("Logoff", "Low")) @@
    (4648 :> Entry("Logon with Explicit Credentials", "High")) @@
    (4672 :> Entry("Special Privileges Assigned", "High")) @@
    (4688 :> Entry("Process Creation", "Medium")) @@
    (4689 :> Entry("Process Exit", "Low")) @@
    (4698 :> Entry("Scheduled Task Created", "High")) @@
    (4703 :> Entry("Token Manipulation", "High")) @@
    (4720 :> Entry("User Account Created", "High")) @@
    (4732 :> Entry("Member Added to Security Group", "High")) @@
    (4768 :> Entry("Kerberos Ticket Request", "Medium")) @@
    (4769 :> Entry("Kerberos Service Ticket", "Medium")) @@
    (4776 :> Entry("Credential Validation", "Medium")) @@
    (4798 :> Entry("User Group Membership", "Medium")) @@
    (4799 :> Entry("Security Group Membership", "Medium")) @@
    (5140 :> Entry("Share Accessed", "Medium")) @@
    (5145 :> Entry("Share Access Check", "Medium")) @@
    (5156 :> Entry("Connection Allowed", "Low")) @@
    (5158 :> Entry("Bind to Port", "Medium")) @@
    (7045 :> Entry("Service Installed", "High"))

CatalogIds == DOMAIN EventCatalog

RiskTiers == {"High", "Medium", "Low"}

(***************************************************************************)
(* load_winevent_data.  A file is [ok, cols, rows]: ok is FALSE when the   *)
(* file is missing or malformed; rows holds each record's raw EventCode    *)
(* cell, [numeric, n]: the text of the number n, or a non-numeric or       *)
(* missing value.                                                          *)
(***************************************************************************)
ToNumeric(cell) == IF cell.numeric THEN cell.n ELSE NaN

\* the frame load_winevent_data builds from a readable file
LoadFrame(file) ==
    LET codes == IF "EventCode" \in file.cols
                 THEN MapSeq(file.rows, ToNumeric)
                 ELSE [i \in 1..Len(file.rows) |-> NaN]
    IN  [none |-> FALSE, cols |-> file.cols,
         float |-> "EventCode" \in file.cols /\ NaN \in Range(codes),
         rows |-> codes]

(***************************************************************************)
(* analyze_winevent_logs.                                                  *)
(***************************************************************************)
\* Series.isin(suspicious_events.keys())
IsInCatalog(code) == code \in CatalogIds

\* the result dict built from suspicious_counts (lines 192-196)
ResultOfBadDefault(counts, float) ==
    [i \in 1..Len(counts) |->
        [label |-> WinLabel(counts[i].v, float,
                            IF counts[i].v \in CatalogIds
                            THEN EventCatalog[counts[i].v].name
                            ELSE "Unknown Event"),
         count |-> counts[i].n]]

ResultOf(counts, float) ==
    LET kept == SelectSeq(counts, LAMBDA c : c.v \in CatalogIds)
    IN  [i \in 1..Len(kept) |->
            [label |-> WinLabel(kept[i].v, float, EventCatalog[kept[i].v].name),
             count |-> kept[i].n]]

\* suspicious_counts[event_id]
CountFor(counts, id) == counts[CHOOSE i \in 1..Len(counts) : counts[i].v = id].n

\* the risk_levels loop (lines 199-204) over the ids in `ids`
RECURSIVE RiskLoop(_, _, _)
RiskLoop(ids, counts, acc) ==
    IF ids = <<>> THEN acc
    ELSE LET id == Head(ids)
             nxt == IF id \in CatalogIds
                    THEN LET risk == EventCatalog[id].risk
                         IN  [acc EXCEPT ![risk] = @ + CountFor(counts, id)]
                    ELSE acc
         IN  RiskLoop(Tail(ids), counts, nxt)

RiskLevelsPerRow(suspicious_df, counts) == RiskLoop(suspicious_df, counts, NoRisk)

RiskLevelsOf(suspicious_df, counts) ==
    RiskLoop(Unique(suspicious_df), counts, NoRisk)

\* the method with its result built from event_counts, the tally of every
\* identifier, and the default name of line 178
AnalyzeWineventAllEvents(df) ==
    IF df.none \/ Len(df.rows) = 0
    THEN [early |-> TRUE, raised |-> FALSE, printed |-> FALSE,
          result |-> <<>>, risk |-> NoRisk]
    ELSE IF "EventCode" \notin df.cols
    THEN [early |-> FALSE, raised |-> TRUE, printed |-> FALSE,
          result |-> <<>>, risk |-> NoRisk]
    ELSE LET suspicious_df == SelectSeq(df.rows, IsInCatalog)
             suspicious_counts == ValueCounts(suspicious_df, NaN)
             event_counts == ValueCounts(df.rows, NaN)
             result == ResultOfBadDefault(event_counts, df.float)
             risk == RiskLevelsOf(suspicious_df, suspicious_counts)
         IN  [early |-> FALSE, raised |-> "ComputerName" \notin df.cols,
              printed |-> TRUE, result |-> result, risk |-> risk]

\* the whole method on frame df: what it returns and prints, and whether it
\* raises (KeyError on a frame without the EventCode or ComputerName column)
AnalyzeWinevent(df) ==
    IF df.none \/ Len(df.rows) = 0
    THEN [early |-> TRUE, raised |-> FALSE, printed |-> FALSE,
          result |-> <<>>, risk |-> NoRisk]
    ELSE IF "EventCode" \notin df.cols
    THEN [early |-> FALSE, raised |-> TRUE, printed |-> FALSE,
          result |-> <<>>, risk |-> NoRisk]
    ELSE LET suspicious_df == SelectSeq(df.rows, IsInCatalog)
             suspicious_counts == ValueCounts(suspicious_df, NaN)
             result == ResultOf(suspicious_counts, df.float)
             risk == RiskLevelsOf(suspicious_df, suspicious_counts)
         IN  [early |-> FALSE, raised |-> "ComputerName" \notin df.cols,
              printed |-> TRUE, result |-> result, risk |-> risk]

(***************************************************************************)
(* analyze_dns_logs.  A DNS row is [domain, client_ip, query_type,         *)
(* response_code]; a domain is the sequence of its dot-separated labels,   *)
(* and NullDomain a null one.                                              *)
(***************************************************************************)
NullDomain == <<>>

RareBelow == 3
LongAbove == 30
StdFactor == 2
NoneStrLen == 4

suspicious_tlds ==
    {".xyz", ".top", ".work", ".date", ".win", ".bid", ".trade", ".cc", ".info"}

unusual_query_types == {"TXT", "ANY", "AXFR", "CNAME"}

Column(df, name) == [i \in 1..Len(df.rows) |-> df.rows[i][name]]

\* get_tld (lines 252-256)
get_tld(domain) ==
    IF domain = NullDomain THEN ""
    ELSE IF Len(domain) > 1 THEN "." \o domain[Len(domain)] ELSE ""

\* len(str(domain)): the labels and the dots between them; str(None) for null
DomainLength(domain) ==
    IF domain = NullDomain THEN NoneStrLen
    ELSE SumSeq(MapSeq(domain, Len)) + Len(domain) - 1

\* heuristic 1 (lines 237-241)
RareDomainCountInclusive(domains) ==
    Len(SelectSeq(ValueCounts(domains, NullDomain), LAMBDA c : c.n <= RareBelow))

RareDomainCount(domains) ==
    Len(SelectSeq(ValueCounts(domains, NullDomain), LAMBDA c : c.n < RareBelow))

\* heuristic 2 (lines 258-260)
UnusualTldCount(domains) ==
    Len(SelectSeq(MapSeq(domains, get_tld), LAMBDA t : t \in suspicious_tlds))

\* heuristic 3 (lines 271-272)
FailedResponseCount(codes) == Len(SelectSeq(codes, LAMBDA c : c # 0))

\* heuristic 4 (lines 282-284)
LongDomainCount(domains) ==
    Len(SelectSeq(MapSeq(domains, DomainLength), LAMBDA n : n > LongAbove))

\* heuristic 5 (lines 289-291)
UnusualQueryCount(qtypes) ==
    Len(SelectSeq(qtypes, LAMBDA q : q \in unusual_query_types))

\* heuristic 6 (lines 301-304).  With n values of sum S, the mean is S/n and
\* Series.std() is the sample deviation sqrt(SS/(n-1)), SS the sum of the
\* squared deviations from the mean; D below is n*n*SS.  f > mean + 2*std
\* is, in integers, n*f - S > 0 and (n*f - S)^2 * (n-1) > 4 * D.  For a
\* single value std() is NaN, and no comparison with NaN is true.
Freqs(ips) == MapSeq(ValueCounts(ips, 0), LAMBDA c : c.n)

ScaledSquares(freqs) ==
    LET n == Len(freqs)
        S == SumSeq(freqs)
    IN  SumSeq(MapSeq(freqs, LAMBDA f : (n * f - S) * (n * f - S)))

\* the same with the population deviation, Series.std(ddof=0)
HighFrequencyCountPopulation(ips) ==
    LET freqs == Freqs(ips)
        n == Len(freqs)
        S == SumSeq(freqs)
        D == ScaledSquares(freqs)
    IN  Len(SelectSeq(freqs, LAMBDA f :
            n * f - S > 0 /\
            (n * f - S) * (n * f - S) * n > StdFactor * StdFactor * D))

\* the same selecting with ~(ip_frequency <= threshold)
HighFrequencyCountNegated(ips) ==
    LET freqs == Freqs(ips)
        n == Len(freqs)
        S == SumSeq(freqs)
        D == ScaledSquares(freqs)
    IN  IF n < 2 THEN n
        ELSE Len(SelectSeq(freqs, LAMBDA f :
                n * f - S > 0 /\
                (n * f - S) * (n * f - S) * (n - 1) > StdFactor * StdFactor * D))

HighFrequencyCount(ips) ==
    LET freqs == Freqs(ips)
        n == Len(freqs)
        S == SumSeq(freqs)
        D == ScaledSquares(freqs)
    IN  IF n < 2 THEN 0
        ELSE Len(SelectSeq(freqs, LAMBDA f :
                n * f - S > 0 /\
                (n * f - S) * (n * f - S) * (n - 1) > StdFactor * StdFactor * D))

Finding(name, count) == [label |-> DnsLabel(name), count |-> count]

\* a row with the given value in column `name` (a new column or an old one)
WithField(row, name, value) ==
    [f \in DOMAIN row \cup {name} |-> IF f = name THEN value ELSE row[f]]

\* a tld string read back as a domain: ".xyz" splits into "" and "xyz"
TldAsDomain(domain) ==
    IF domain = NullDomain \/ Len(domain) <= 1 THEN <<"">>
    ELSE <<"", domain[Len(domain)]>>

\* the frame with get_tld's value assigned to the 'domain' column itself
DerivedFrameOverwritingDomain(df) ==
    [df EXCEPT !.cols = @ \cup {"domain_length"},
               !.rows = [i \in 1..Len(df.rows) |->
                   WithField(WithField(df.rows[i], "domain",
                                       TldAsDomain(df.rows[i].domain)),
                             "domain_length", DomainLength(df.rows[i].domain))]]

\* the frame after lines 258 and 282: the columns 'tld' and 'domain_length'
\* are assigned (added, or overwritten when a former call added them)
DerivedFrame(df) ==
    [df EXCEPT !.cols = @ \cup {"tld", "domain_length"},
               !.rows = [i \in 1..Len(df.rows) |->
                   WithField(WithField(df.rows[i], "tld", get_tld(df.rows[i].domain)),
                             "domain_length", DomainLength(df.rows[i].domain))]]

\* the whole method on frame df: what it returns, the columns it adds to the
\* frame, and whether it raises (KeyError on a frame without a domain column)
AnalyzeDns(df) ==
    IF df.none \/ Len(df.rows) = 0
    THEN [early |-> TRUE, raised |-> FALSE, criteria |-> <<>>, frame |-> df]
    ELSE IF "domain" \notin df.cols
    THEN [early |-> FALSE, raised |-> TRUE, criteria |-> <<>>, frame |-> df]
    ELSE LET domains == Column(df, "domain")
             c1 == <<Finding("Rare Domain Queries", RareDomainCount(domains)),
                     Finding("Unusual TLD Queries", UnusualTldCount(domains))>>
             c3 == IF "response_code" \in df.cols
                   THEN <<Finding("Failed DNS Responses",
                                  FailedResponseCount(Column(df, "response_code")))>>
                   ELSE <<>>
             c4 == IF "domain" \in df.cols
                   THEN <<Finding("Long Domain Names (>30 chars)",
                                  LongDomainCount(domains))>>
                   ELSE <<>>
             c5 == IF "query_type" \in df.cols
                   THEN <<Finding("Unusual Query Types",
                                  UnusualQueryCount(Column(df, "query_type")))>>
                   ELSE <<>>
             c6 == IF "client_ip" \in df.cols
                   THEN <<Finding("High Query Frequency IPs",
                                  HighFrequencyCount(Column(df, "client_ip")))>>
                   ELSE <<>>
         IN  [early |-> FALSE, raised |-> FALSE,
              criteria |-> c1 \o c3 \o c4 \o c5 \o c6,
              frame |-> DerivedFrame(df)]

(***************************************************************************)
(* load_dns_data.  A file is [kind, cols, rows]; every kind but "ok" (a    *)
(* missing file, an unsupported extension, a load error) falls back to     *)
(* _create_sample_dns_data.                                                *)
(***************************************************************************)
DnsCols == {"domain", "client_ip", "query_type", "response_code"}

DnsFrame(cols, rows) == [none |-> FALSE, cols |-> cols, float |-> FALSE, rows |-> rows]

DnsRow(domain, ip, qtype, code) ==
    [domain |-> domain, client_ip |-> ip, query_type |-> qtype, response_code |-> code]

(***************************************************************************)
(* visualize_results: the merged list and its top 10 (lines 321-339).      *)
(***************************************************************************)
TopN == 10

\* all_events: one row per finding, sources and findings in dict order; idx
\* is the row's DataFrame index
RECURSIVE Flatten(_)
Flatten(cache) ==
    IF cache = <<>> THEN <<>>
    ELSE LET src == Head(cache)
         IN  [i \in 1..Len(src.events) |->
                 [Source |-> IF src.source = "WinEvent" THEN "WinEventLog" ELSE "DNS Logs",
                  Event |-> src.events[i].label,
                  Count |-> src.events[i].count]] \o Flatten(Tail(cache))

AllEvents(cache) ==
    LET flat == Flatten(cache)
    IN  [i \in 1..Len(flat) |->
            [Source |-> flat[i].Source, Event |-> flat[i].Event,
             Count |-> flat[i].Count, idx |-> i - 1]]

RemoveAt(s, i) == SubSeq(s, 1, i - 1) \o SubSeq(s, i + 1, Len(s))

MaxCount(rows) == CHOOSE m \in {rows[i].Count : i \in 1..Len(rows)} :
                     \A i \in 1..Len(rows) : rows[i].Count <= m

\* DataFrame.nlargest(n, 'Count', keep='last')
RECURSIVE NLargestKeepLast(_, _)
NLargestKeepLast(n, rows) ==
    IF n = 0 \/ rows = <<>> THEN <<>>
    ELSE LET m == MaxCount(rows)
             i == CHOOSE j \in 1..Len(rows) :
                     rows[j].Count = m /\ \A k \in (j + 1)..Len(rows) : rows[k].Count # m
         IN  <<rows[i]>> \o NLargestKeepLast(n - 1, RemoveAt(rows, i))

\* DataFrame.nlargest(n, 'Count'): the n rows of largest Count by descending
\* Count, rows of equal Count in their order of appearance (keep='first')
RECURSIVE NLargest(_, _)
NLargest(n, rows) ==
    IF n = 0 \/ rows = <<>> THEN <<>>
    ELSE LET m == MaxCount(rows)
             i == CHOOSE j \in 1..Len(rows) :
                     rows[j].Count = m /\ \A k \in 1..(j - 1) : rows[k].Count # m
         IN  <<rows[i]>> \o NLargest(n - 1, RemoveAt(rows, i))

\* what one call builds: nothing when there is no finding at all
Visualize(cache) ==
    LET all_events == AllEvents(cache)
    IN  IF all_events = <<>> THEN NoRanking
        ELSE [built |-> TRUE, rows |-> NLargest(TopN, all_events)]

(***************************************************************************)
(* print_summary: the rows of the CSV file (lines 442-467).                *)
(***************************************************************************)
\* sorted(events.items(), key=lambda x: x[1], reverse=True): stable
SortedEvents(events) ==
    LET pairs == SortDesc([i \in 1..Len(events) |-> [v |-> events[i].label,
                                                     n |-> events[i].count]])
    IN  [i \in 1..Len(pairs) |-> [label |-> pairs[i].v, count |-> pairs[i].n]]

RECURSIVE AllResults(_)
AllResults(cache) ==
    IF cache = <<>> THEN <<>>
    ELSE LET src == Head(cache)
             sorted_events == SortedEvents(src.events)
         IN  [i \in 1..Len(sorted_events) |->
                 [Source |-> src.source,
                  Event |-> sorted_events[i].label,
                  Count |-> sorted_events[i].count]] \o AllResults(Tail(cache))

\* the file after the call: written only when there is a row to write
SummaryFile(cache, file) ==
    LET all_results == AllResults(cache)
    IN  IF all_results # <<>> THEN [exists |-> TRUE, rows |-> all_results] ELSE file

\* the 'hour' column print_summary adds to a non-empty frame with '_time'
WithHour(df) ==
    IF ~df.none /\ Len(df.rows) > 0 /\ "_time" \in df.cols
    THEN [df EXCEPT !.cols = @ \cup {"hour"}]
    ELSE df

(***************************************************************************)
(* Inputs.                                                                 *)
(***************************************************************************)
WinCols == {"EventCode", "ComputerName", "_time"}

Num(n) == [numeric |-> TRUE, n |-> n]
BadCell == [numeric |-> FALSE, n |-> 0]

\* raw EventCode cells: a High, a Medium and a Low catalog identifier, one
\* outside the catalog, and a non-numeric or missing value
RawCells == {Num(4625), Num(4624), Num(4634), Num(9999), BadCell}
RunCells == {Num(4625), Num(9999)}

WinFile(cols, rows) == [ok |-> TRUE, cols |-> cols, rows |-> rows]
UnreadableFile == [ok |-> FALSE, cols |-> {}, rows |-> <<>>]

\* readable files of at most n records: no record at all, records with every
\* field, records without a host, records without an event identifier
WinFiles(cells, n) ==
    {WinFile({}, <<>>)}
    \cup {WinFile(cols, rows) : cols \in {WinCols, WinCols \ {"ComputerName"}},
                                rows \in SeqsUpTo(cells, n) \ {<<>>}}
    \cup {WinFile(WinCols \ {"EventCode"}, rows) :
            rows \in SeqsUpTo({BadCell}, n) \ {<<>>}}

LongDomain == <<"a-generated-name-of-thirty-one-chars", "com">>
Domains == {NullDomain, <<"localhost">>, <<"x", "xyz">>, LongDomain}

DefaultRow == DnsRow(<<"a", "com">>, 1, "A", 0)

\* a row with the fields of absent columns blanked
Blank(row, cols) ==
    [f \in DOMAIN row |-> IF f \in cols THEN row[f] ELSE DefaultRow[f]]

SchemaRows ==
    {DefaultRow, DnsRow(<<"x", "xyz">>, 2, "TXT", 3), DnsRow(LongDomain, 1, "ANY", 0)}

\* frames of at most n rows under every schema
SchemaFrames(n) ==
    {DnsFrame(cols, MapSeq(rows, LAMBDA r : Blank(r, cols))) :
        cols \in SUBSET DnsCols, rows \in SeqsUpTo(SchemaRows, n)}

\* frames of at most n rows that differ in their domains only
DomainFrames(n) ==
    {DnsFrame(DnsCols, MapSeq(ds, LAMBDA d : [DefaultRow EXCEPT !.domain = d])) :
        ds \in SeqsUpTo(Domains, n)}

\* frames of at most n rows that differ in their client IPs only, one frame
\* per multiset of IPs (value_counts does not depend on the order of rows)
IpFrames(n) ==
    {DnsFrame(DnsCols, MapSeq(ips, LAMBDA ip : [DefaultRow EXCEPT !.client_ip = ip])) :
        ips \in SortedSeqsUpTo(1, NumIps, n)}

RunRows == {DefaultRow, DnsRow(<<"x", "xyz">>, 1, "TXT", 3)}

RunFrames ==
    {DnsFrame(cols, MapSeq(rows, LAMBDA r : Blank(r, cols))) :
        cols \in {DnsCols, DnsCols \ {"domain"}, DnsCols \ {"client_ip"}},
        rows \in SeqsUpTo(RunRows, MaxRunBatch)}

\* what _create_sample_dns_data can produce: rows with every column
SampleFrames ==
    {DnsFrame(DnsCols, rows) : rows \in SeqsUpTo(RunRows, MaxRunBatch) \ {<<>>}}

(***************************************************************************)
(* The methods as actions.  pc is the caller's position in                 *)
(* run_full_analysis (lines 492-514).                                      *)
(***************************************************************************)
TypeOK ==
    /\ pc \in {"idle", "load_win", "analyze_win", "dns_branch", "analyze_dns",
               "rank", "summarize", "done", "raised", "reanalysed"}
    /\ runs \in 0..MaxRuns
    /\ args.dns_file \in BOOLEAN

Init ==
    /\ winevent_df = NoFrame
    /\ dns_df = NoFrame
    /\ suspicious_events = <<>>
    /\ summary_csv = NoFile
    /\ pc = "idle"
    /\ args = [dns_file |-> FALSE]
    /\ stages = <<>>
    /\ ret = NoReturns
    /\ risk_levels = NoRisk
    /\ ranked = NoRanking
    /\ runs = 0

\* BotsV1Analyzer(): a new analyzer (a new process); files on disk stay
NewAnalyzer ==
    /\ pc = "idle"
    /\ runs > 0
    /\ winevent_df' = NoFrame
    /\ dns_df' = NoFrame
    /\ suspicious_events' = <<>>
    /\ UNCHANGED <<summary_csv, pc, args, stages, ret, risk_levels, ranked, runs>>

\* a call of run_full_analysis(winevent_file, dns_file)
run_full_analysis ==
    /\ pc = "idle"
    /\ runs < MaxRuns
    /\ \E configured \in BOOLEAN : args' = [dns_file |-> configured]
    /\ pc' = "load_win"
    /\ stages' = <<>>
    /\ ret' = NoReturns
    /\ risk_levels' = NoRisk
    /\ ranked' = NoRanking
    /\ runs' = runs + 1
    /\ UNCHANGED <<winevent_df, dns_df, suspicious_events, summary_csv>>

load_winevent_data ==
    /\ pc = "load_win"
    /\ \E file \in {UnreadableFile} \cup WinFiles(RunCells, MaxRunBatch) :
          /\ winevent_df' = IF file.ok THEN LoadFrame(file) ELSE winevent_df
          /\ pc' = IF file.ok THEN "analyze_win" ELSE "dns_branch"
          /\ ret' = [ret EXCEPT !.load = IF file.ok THEN "ok" ELSE "failed"]
    /\ stages' = Append(stages, "LoadWin")
    /\ UNCHANGED <<dns_df, suspicious_events, summary_csv, args,
                   risk_levels, ranked, runs>>

analyze_winevent_logs ==
    /\ pc = "analyze_win"
    /\ LET r == AnalyzeWinevent(winevent_df)
       IN  /\ suspicious_events' =
                 IF r.early \/ r.raised THEN suspicious_events
                 ELSE SetKey(suspicious_events, "source", "WinEvent",
                             [source |-> "WinEvent", events |-> r.result])
           /\ risk_levels' = IF r.printed THEN r.risk ELSE risk_levels
           /\ ret' = [ret EXCEPT !.win = [called |-> TRUE, raised |-> r.raised,
                                          value |-> IF r.raised THEN <<>> ELSE r.result]]
           /\ pc' = IF r.raised THEN "raised" ELSE "dns_branch"
    /\ stages' = Append(stages, "AnalyzeWin")
    /\ UNCHANGED <<winevent_df, dns_df, summary_csv, args, ranked, runs>>

load_dns_data ==
    /\ pc = "dns_branch"
    /\ args.dns_file
    /\ \E kind \in {"ok", "fallback"} :
          \E frame \in (IF kind = "ok" THEN RunFrames ELSE SampleFrames) :
             dns_df' = frame
    /\ pc' = "analyze_dns"
    /\ stages' = Append(stages, "LoadDns")
    /\ UNCHANGED <<winevent_df, suspicious_events, summary_csv, args, ret,
                   risk_levels, ranked, runs>>

\* the else branch of line 507: no DNS file was given
SkipDns ==
    /\ pc = "dns_branch"
    /\ ~args.dns_file
    /\ pc' = "rank"
    /\ UNCHANGED <<winevent_df, dns_df, suspicious_events, summary_csv, args,
                   stages, ret, risk_levels, ranked, runs>>

analyze_dns_logs ==
    /\ pc = "analyze_dns"
    /\ LET r == AnalyzeDns(dns_df)
       IN  /\ dns_df' = r.frame
           /\ suspicious_events' =
                 IF r.early \/ r.raised THEN suspicious_events
                 ELSE SetKey(suspicious_events, "source", "DNS",
                             [source |-> "DNS", events |-> r.criteria])
           /\ ret' = [ret EXCEPT !.dns = [called |-> TRUE, raised |-> r.raised,
                                          value |-> r.criteria]]
           /\ pc' = IF r.raised THEN "raised" ELSE "rank"
    /\ stages' = Append(stages, "AnalyzeDns")
    /\ UNCHANGED <<winevent_df, summary_csv, args, risk_levels, ranked, runs>>

visualize_results ==
    /\ pc = "rank"
    /\ ranked' = Visualize(suspicious_events)
    /\ pc' = "summarize"
    /\ stages' = Append(stages, "Rank")
    /\ UNCHANGED <<winevent_df, dns_df, suspicious_events, summary_csv, args,
                   ret, risk_levels, runs>>

print_summary ==
    /\ pc = "summarize"
    /\ summary_csv' = SummaryFile(suspicious_events, summary_csv)
    /\ winevent_df' = WithHour(winevent_df)
    /\ pc' = "done"
    /\ stages' = Append(stages, "Summarize")
    /\ UNCHANGED <<dns_df, suspicious_events, args, ret, risk_levels, ranked, runs>>

\* run_full_analysis returns, or the exception reaches its caller
Return ==
    /\ pc \in {"done", "raised"}
    /\ pc' = "idle"
    /\ UNCHANGED <<winevent_df, dns_df, suspicious_events, summary_csv, args,
                   stages, ret, risk_levels, ranked, runs>>

Next ==
    \/ NewAnalyzer
    \/ run_full_analysis
    \/ load_winevent_data
    \/ analyze_winevent_logs
    \/ load_dns_data
    \/ SkipDns
    \/ analyze_dns_logs
    \/ visualize_results
    \/ print_summary
    \/ Return

Spec == Init /\ [][Next]_vars

(***************************************************************************)
(* analyze_winevent_logs alone, on every loaded batch of the bounds.       *)
(***************************************************************************)
InitWin ==
    /\ winevent_df \in {LoadFrame(f) : f \in WinFiles(RawCells, MaxWinBatch)}
    /\ dns_df = NoFrame
    /\ suspicious_events = <<>>
    /\ summary_csv = NoFile
    /\ pc = "analyze_win"
    /\ args = [dns_file |-> FALSE]
    /\ stages = <<"LoadWin">>
    /\ ret = [NoReturns EXCEPT !.load = "ok"]
    /\ risk_levels = NoRisk
    /\ ranked = NoRanking
    /\ runs = 1

SpecWin == InitWin /\ [][analyze_winevent_logs]_vars

(***************************************************************************)
(* analyze_dns_logs alone, on every loaded batch of the bounds.            *)
(***************************************************************************)
InitDns ==
    /\ winevent_df = NoFrame
    /\ \/ dns_df \in SchemaFrames(MaxDnsBatch)
       \/ dns_df \in DomainFrames(MaxDomainBatch)
       \/ dns_df \in IpFrames(MaxIpBatch)
    /\ suspicious_events = <<>>
    /\ summary_csv = NoFile
    /\ pc = "analyze_dns"
    /\ args = [dns_file |-> TRUE]
    /\ stages = <<"LoadWin", "LoadDns">>
    /\ ret = [NoReturns EXCEPT !.load = "failed"]
    /\ risk_levels = NoRisk
    /\ ranked = NoRanking
    /\ runs = 1

SpecDns == InitDns /\ [][analyze_dns_logs]_vars

(***************************************************************************)
(* analyze_dns_logs called twice in a row on the same loaded batch.        *)
(***************************************************************************)
\* the caller's second call, right after the first returned or raised
analyze_dns_logs_again ==
    /\ pc \in {"rank", "raised"}
    /\ ret.dns.called
    /\ LET r == AnalyzeDns(dns_df)
       IN  /\ dns_df' = r.frame
           /\ suspicious_events' =
                 IF r.early \/ r.raised THEN suspicious_events
                 ELSE SetKey(suspicious_events, "source", "DNS",
                             [source |-> "DNS", events |-> r.criteria])
           /\ ret' = [ret EXCEPT !.dns_first = ret.dns,
                                 !.dns = [called |-> TRUE, raised |-> r.raised,
                                          value |-> r.criteria]]
    /\ pc' = "reanalysed"
    /\ stages' = Append(stages, "AnalyzeDns")
    /\ UNCHANGED <<winevent_df, summary_csv, args, risk_levels, ranked, runs>>

SpecDnsTwice == InitDns /\ [][analyze_dns_logs \/ analyze_dns_logs_again]_vars

(***************************************************************************)
(* visualize_results alone, on the findings cached by analyses of the      *)
(* batches of the bounds, the two sources cached in either order.          *)
(***************************************************************************)
\* the catalog's identifiers in the order of the table
EventIds ==
    <<4624, 4625, 4634, 4648, 4672, 4688, 4689, 4698, 4703, 4720, 4732,
      4768, 4769, 4776, 4798, 4799, 5140, 5145, 5156, 5158, 7045>>

RECURSIVE Repeat(_, _)
Repeat(x, n) == IF n = 0 THEN <<>> ELSE <<x>> \o Repeat(x, n - 1)

\* counts[i] records of the i-th identifier, for every i
RECURSIVE RowsOfCounts(_, _)
RowsOfCounts(counts, i) ==
    IF i > Len(counts) THEN <<>>
    ELSE Repeat(Num(EventIds[i]), counts[i]) \o RowsOfCounts(counts, i + 1)

RankWinFrames ==
    {LoadFrame(WinFile(WinCols, <<Num(9999)>>))}
    \cup {LoadFrame(WinFile(WinCols, RowsOfCounts(counts, 1))) :
            counts \in SortedSeqsUpTo(1, MaxWinCount, MaxWinFindings) \ {<<>>}}

RankDnsFrames ==
    {DnsFrame(cols, MapSeq(rows, LAMBDA r : Blank(r, cols))) :
        cols \in {DnsCols, {"domain"}},
        rows \in SeqsUpTo(RunRows, MaxDnsBatch) \ {<<>>}}

WinCache(frame) == [source |-> "WinEvent", events |-> AnalyzeWinevent(frame).result]
DnsCache(frame) == [source |-> "DNS", events |-> AnalyzeDns(frame).criteria]

InitRank ==
    /\ \E wf \in RankWinFrames, df \in RankDnsFrames :
          \E order \in {"win", "dns", "win-dns", "dns-win"} :
             /\ winevent_df = IF order = "dns" THEN NoFrame ELSE wf
             /\ dns_df = IF order = "win" THEN NoFrame ELSE AnalyzeDns(df).frame
             /\ suspicious_events =
                   CASE order = "win" -> <<WinCache(wf)>>
                     [] order = "dns" -> <<DnsCache(df)>>
                     [] order = "win-dns" -> <<WinCache(wf), DnsCache(df)>>
                     [] order = "dns-win" -> <<DnsCache(df), WinCache(wf)>>
    /\ summary_csv = NoFile
    /\ pc = "rank"
    /\ args = [dns_file |-> TRUE]
    /\ stages = <<>>
    /\ ret = NoReturns
    /\ risk_levels = NoRisk
    /\ ranked = NoRanking
    /\ runs = 1

SpecRank == InitRank /\ [][visualize_results]_vars

(***************************************************************************)
(* Properties.                                                             *)
(***************************************************************************)
Counts(events) == MapSeq(events, LAMBDA e : e.count)

HasEntry(events, name) == \E i \in 1..Len(events) : events[i].label.name = name

EntryCount(events, name) ==
    events[CHOOSE i \in 1..Len(events) : events[i].label.name = name].count

WinReturned == ret.win.called /\ ~ret.win.raised

\* analyze_dns_logs returned the criteria of a non-empty batch
DnsReturned == ret.dns.called /\ ~ret.dns.raised /\ Len(dns_df.rows) > 0

\* C1: once analyze_winevent_logs has returned, the three tier counts sum to
\* the sum of the returned counts, and each tier's count is the sum of the
\* counts of the returned findings whose catalog risk is that tier.
C1_TierSums ==
    WinReturned =>
        /\ risk_levels.High + risk_levels.Medium + risk_levels.Low
              = SumSeq(Counts(ret.win.value))
        /\ \A tier \in RiskTiers :
              risk_levels[tier] =
                 SumSeq(Counts(SelectSeq(ret.win.value,
                           LAMBDA e : EventCatalog[e.label.id].risk = tier)))

\* a batch with findings of all three tiers, one of them counted twice
C1_Witness ==
    /\ WinReturned
    /\ risk_levels.High >= 2
    /\ risk_levels.Medium >= 1
    /\ risk_levels.Low >= 1
    /\ \E i \in 1..Len(ret.win.value) : ret.win.value[i].count >= 2

\* C2: the returned mapping has exactly one entry per catalog identifier
\* occurring in the batch, counting the records that carry it; records with
\* an identifier outside the catalog, or none, add no entry.
C2_OneEntryPerCatalogId ==
    WinReturned =>
        LET value == ret.win.value
            ids == {value[i].label.id : i \in 1..Len(value)}
        IN  /\ ids = Range(winevent_df.rows) \cap CatalogIds
            /\ Len(value) = Cardinality(ids)
            /\ \A i \in 1..Len(value) :
                  /\ value[i].count = CountOf(winevent_df.rows, value[i].label.id)
                  /\ value[i].label.name = EventCatalog[value[i].label.id].name

\* the batch [4625, 4625, 9999]: Failed Logon 2, tiers High 2, Medium 0, Low 0
C2_Witness ==
    /\ WinReturned
    /\ winevent_df.rows = <<4625, 4625, 9999>>
    /\ ret.win.value = <<[label |-> WinLabel(4625, FALSE, "Failed Logon"), count |-> 2]>>
    /\ risk_levels = [High |-> 2, Medium |-> 0, Low |-> 0]

\* C3: when load_winevent_data fails, the run skips the WinEvent analysis,
\* does not raise, and a completed run has loaded and analysed the DNS
\* source when one is configured, then ranked and summarised.
C3_LoadFailureNotFatal ==
    ret.load = "failed" =>
        /\ "AnalyzeWin" \notin Range(stages)
        /\ pc # "raised"
        /\ pc = "done" =>
              /\ args.dns_file => {"LoadDns", "AnalyzeDns"} \subseteq Range(stages)
              /\ {"Rank", "Summarize"} \subseteq Range(stages)

StageOrder ==
    "LoadWin" :> 1 @@ "AnalyzeWin" :> 2 @@ "LoadDns" :> 3 @@ "AnalyzeDns" :> 4 @@
    "Rank" :> 5 @@ "Summarize" :> 6

\* C4: the stages of a run occur in the order Load(WinEvent), Analyze(WinEvent),
\* Load(DNS), Analyze(DNS), Rank, Summarize; Analyze(DNS) directly follows
\* Load(DNS); no DNS stage runs without a DNS source; and a run that has
\* ended has ranked once and summarised once.
C4_StrictStageOrder ==
    /\ \A i, j \in 1..Len(stages) : i < j => StageOrder[stages[i]] < StageOrder[stages[j]]
    /\ \A i \in 1..Len(stages) :
          stages[i] = "AnalyzeDns" => i > 1 /\ stages[i - 1] = "LoadDns"
    /\ ~args.dns_file => Range(stages) \cap {"LoadDns", "AnalyzeDns"} = {}
    /\ pc \in {"done", "raised"} =>
          CountOf(stages, "Rank") = 1 /\ CountOf(stages, "Summarize") = 1

\* the labels analyze_dns_logs emits for the columns of a schema
ExpectedLabels(cols) ==
    (IF "domain" \in cols
     THEN {"Rare Domain Queries", "Unusual TLD Queries", "Long Domain Names (>30 chars)"}
     ELSE {})
    \cup (IF "response_code" \in cols THEN {"Failed DNS Responses"} ELSE {})
    \cup (IF "query_type" \in cols THEN {"Unusual Query Types"} ELSE {})
    \cup (IF "client_ip" \in cols THEN {"High Query Frequency IPs"} ELSE {})

\* C5: on a non-empty batch whose schema lacks a field some heuristic needs,
\* analyze_dns_logs returns normally and emits exactly the entries of the
\* heuristics whose field is present.
C5_MissingFieldSkipsHeuristic ==
    (ret.dns.called /\ Len(dns_df.rows) > 0 /\ ~(DnsCols \subseteq dns_df.cols)) =>
        /\ ~ret.dns.raised
        /\ {ret.dns.value[i].label.name : i \in 1..Len(ret.dns.value)}
              = ExpectedLabels(dns_df.cols)

\* the per-IP occurrence counts of the batch, read off its rows
IpColumn == Column(dns_df, "client_ip")
DistinctIps == Range(IpColumn)
IpCount(ip) == CountOf(IpColumn, ip)
RECURSIVE SquaresOver(_)
SquaresOver(ips) ==
    IF ips = {} THEN 0
    ELSE LET ip == CHOOSE x \in ips : TRUE
         IN  IpCount(ip) * IpCount(ip) + SquaresOver(ips \ {ip})
IpSquares == SquaresOver(DistinctIps)

\* IPs whose count exceeds mean + 2 * sqrt(SS / divisor), SS the sum of the
\* squared deviations: with n IPs over S rows and Q the sum of the squared
\* counts, SS = (n*Q - S*S) / n
IpsAbove(divisor) ==
    LET n == Cardinality(DistinctIps)
        S == Len(IpColumn)
    IN  {ip \in DistinctIps :
            /\ n * IpCount(ip) - S > 0
            /\ (n * IpCount(ip) - S) * (n * IpCount(ip) - S) * divisor
                  > 4 * n * (n * IpSquares - S * S)}

\* C6 as claimed: the count is that of the IPs above mean + 2 * population
\* standard deviation (divisor N).
C6_PopulationThreshold ==
    (DnsReturned /\ "client_ip" \in dns_df.cols) =>
        /\ HasEntry(ret.dns.value, "High Query Frequency IPs")
        /\ EntryCount(ret.dns.value, "High Query Frequency IPs")
              = Cardinality(IpsAbove(Cardinality(DistinctIps)))

\* C6 amended: the count is that of the IPs above mean + 2 * sample standard
\* deviation (divisor N-1), and 0 when fewer than two distinct IPs occur.
C6_SampleThreshold ==
    (DnsReturned /\ "client_ip" \in dns_df.cols) =>
        /\ HasEntry(ret.dns.value, "High Query Frequency IPs")
        /\ EntryCount(ret.dns.value, "High Query Frequency IPs")
              = IF Cardinality(DistinctIps) < 2 THEN 0
                ELSE Cardinality(IpsAbove(Cardinality(DistinctIps) - 1))

\* an IP is flagged among six
C6_Witness ==
    /\ DnsReturned
    /\ Cardinality(DistinctIps) >= 6
    /\ EntryCount(ret.dns.value, "High Query Frequency IPs") = 1

\* C7: Rare Domain Queries is the number of distinct non-null domains that
\* occur fewer than 3 times, and never exceeds the batch size.
C7_RareDistinctDomains ==
    DnsReturned =>
        LET domains == Column(dns_df, "domain")
        IN  /\ HasEntry(ret.dns.value, "Rare Domain Queries")
            /\ EntryCount(ret.dns.value, "Rare Domain Queries")
                  = Cardinality({d \in Range(domains) \ {NullDomain} :
                                    CountOf(domains, d) < 3})
            /\ EntryCount(ret.dns.value, "Rare Domain Queries") <= Len(domains)

\* a domain occurring twice counts once; one occurring 3 times does not count
C7_Witness ==
    /\ DnsReturned
    /\ EntryCount(ret.dns.value, "Rare Domain Queries") = 1
    /\ LET domains == Column(dns_df, "domain")
       IN  /\ \E d \in Range(domains) : CountOf(domains, d) = 2
           /\ \E d \in Range(domains) : CountOf(domains, d) = 3
           /\ NullDomain \notin Range(domains)

\* C8: the top list is sorted by descending count with equal counts in input
\* order, has min(10, number of findings) rows, each a finding; no omitted
\* finding has a larger count than a listed one; with one source empty the
\* list holds the other source's findings only.
C8_TopListSorted ==
    LET all_events == AllEvents(suspicious_events)
        rows == ranked.rows
        listed == {rows[i].idx : i \in 1..Len(rows)}
    IN  pc = "summarize" =>
           /\ ranked.built <=> all_events # <<>>
           /\ Len(rows) = IF Len(all_events) < 10 THEN Len(all_events) ELSE 10
           /\ \A i \in 1..Len(rows) : rows[i] = all_events[rows[i].idx + 1]
           /\ \A i, j \in 1..Len(rows) :
                 i < j => \/ rows[i].Count > rows[j].Count
                          \/ rows[i].Count = rows[j].Count /\ rows[i].idx < rows[j].idx
           /\ \A k \in 1..Len(all_events) :
                 (k - 1) \notin listed =>
                    \A i \in 1..Len(rows) : rows[i].Count >= all_events[k].Count
           /\ EventsOf(suspicious_events, "WinEvent") = <<>> =>
                 \A i \in 1..Len(rows) : rows[i].Source = "DNS Logs"
           /\ EventsOf(suspicious_events, "DNS") = <<>> =>
                 \A i \in 1..Len(rows) : rows[i].Source = "WinEventLog"

\* eleven findings of both sources, a tie across the sources, one omitted
C8_Witness ==
    /\ pc = "summarize"
    /\ Len(AllEvents(suspicious_events)) > 10
    /\ Len(ranked.rows) = 10
    /\ \E i, j \in 1..Len(ranked.rows) :
          /\ i < j
          /\ ranked.rows[i].Count = ranked.rows[j].Count
          /\ ranked.rows[i].Source # ranked.rows[j].Source
    /\ ranked.rows[1].Count > ranked.rows[10].Count

\* C9: after print_summary the file holds exactly one row per finding of the
\* run and nothing else, also when the run produced no finding.
C9_FileHoldsCurrentFindings ==
    pc = "done" =>
        LET findings == AllResults(suspicious_events)
        IN  /\ Range(summary_csv.rows) = Range(findings)
            /\ Len(summary_csv.rows) = Len(findings)

\* C10: a batch in which exactly one distinct client IP occurs yields
\* High Query Frequency IPs = 0.
C10_SingleIpNotFlagged ==
    (DnsReturned /\ "client_ip" \in dns_df.cols /\ Cardinality(DistinctIps) = 1) =>
        /\ HasEntry(ret.dns.value, "High Query Frequency IPs")
        /\ EntryCount(ret.dns.value, "High Query Frequency IPs") = 0

\* three records of one client IP
C10_Witness ==
    /\ DnsReturned
    /\ "client_ip" \in dns_df.cols
    /\ Cardinality(DistinctIps) = 1
    /\ Len(dns_df.rows) >= 3
    /\ EntryCount(ret.dns.value, "High Query Frequency IPs") = 0

\* C11: a second call of analyze_dns_logs on the same loaded batch returns
\* the mapping the first call returned (and raises when the first raised),
\* although the first call added the tld and domain_length columns.
C11_SecondCallSameMapping ==
    pc = "reanalysed" =>
        /\ ret.dns.value = ret.dns_first.value
        /\ ret.dns.raised = ret.dns_first.raised

\* both calls returned findings of a batch that now has the derived columns
C11_Witness ==
    /\ pc = "reanalysed"
    /\ ~ret.dns_first.raised
    /\ {"tld", "domain_length"} \subseteq dns_df.cols
    /\ Len(ret.dns.value) = 6
    /\ EntryCount(ret.dns.value, "Unusual TLD Queries") >= 1
    /\ EntryCount(ret.dns.value, "Long Domain Names (>30 chars)") >= 1
    /\ EntryCount(ret.dns.value, "Rare Domain Queries") >= 2

\* C12: once an analyze call of a source has returned, the cached findings
\* of that source are the mapping it returned; in particular they are empty
\* after the analysis of an empty or absent batch.
\* (stated while the run that made the call is in progress: the analyzer
\* is then the one the call was made on)
C12_CacheIsLastReturn ==
    pc # "idle" =>
        /\ (ret.win.called /\ ~ret.win.raised) =>
              EventsOf(suspicious_events, "WinEvent") = ret.win.value
        /\ (ret.dns.called /\ ~ret.dns.raised) =>
              EventsOf(suspicious_events, "DNS") = ret.dns.value

\* C13: an error raised by the WinEvent analysis of a loaded batch does not
\* reach the caller of run_full_analysis, and the run still loads the DNS
\* source when one is configured, ranks and summarises.
C13_WinErrorContained ==
    (ret.win.called /\ ret.win.raised) =>
        /\ pc # "raised"
        /\ pc = "idle" =>
              /\ args.dns_file => "LoadDns" \in Range(stages)
              /\ {"Rank", "Summarize"} \subseteq Range(stages)

====
